---------------------------- MODULE Spec2Model ----------------------------
(***************************************************************************)
(* A model of scripts/generate_icons.py: the icon pipeline of main         *)
(* (compose, save icon.png, create_ico, create_icns) at the level of the   *)
(* bytes it writes, and the procedural composer draw_ball_python_j at the  *)
(* level of the pixels it paints.                                          *)
(*                                                                         *)
(* Spec      the pipeline: one or more runs of main against one disk.      *)
(* SpecDraw  the composer: one call of draw_ball_python_j(S), one state    *)
(*           per drawing call.                                             *)
(***************************************************************************)
EXTENDS Integers, Sequences, FiniteSets

VARIABLES
    pc,            \* position of main / create_icns
    run,           \* how many times main has been started
    encLen,        \* the PNG encoder: compressed-data length per image size
    master,        \* `icon` of main: the composed master image
    disk,          \* RESOURCES: file name -> [present, bytes]
    written,       \* the files the current run has written
    composerRuns,  \* calls of draw_ball_python_j in the current run
    packagerRuns,  \* calls of create_ico / create_icns in the current run
    icoImg,        \* `img` of create_ico
    img,           \* `img` of create_icns
    i,             \* loop position of create_icns over icon_types
    entries,       \* `entries` of create_icns
    icns_data,     \* `icns_data` of create_icns
    failedAt,      \* where the run raised, "none" while it has not
    prevIcns,      \* icon.icns as the previous completed run left it
    dsize,         \* `size` of draw_ball_python_j
    dstep,         \* how many drawing calls draw_ball_python_j has made
    dimg           \* `img` of draw_ball_python_j: pixel -> paint

pipeVars == <<pc, run, encLen, master, disk, written, composerRuns,
              packagerRuns, icoImg, img, i, entries, icns_data, failedAt,
              prevIcns>>
drawVars == <<dsize, dstep, dimg>>
vars == <<pipeVars, drawVars>>

(***************************************************************************)
(* Bounds of the model.                                                    *)
(***************************************************************************)
MaxPngLen == 1
MaxRuns == 2

(***************************************************************************)
(* Bytes.                                                                  *)
(***************************************************************************)
\* struct.pack(">I", n): four bytes, most significant first.  struct raises
\* for n >= 2^32, which no length of this model reaches.
Pack32(n) ==
    << (n \div 16777216) % 256, (n \div 65536) % 256, (n \div 256) % 256, n % 256 >>

\* The big-endian uint32 stored at 0-based offset off of b.
Unpack32(b, off) ==
    b[off + 1] * 16777216 + b[off + 2] * 65536 + b[off + 3] * 256 + b[off + 4]

RECURSIVE Join(_)
\* b"".join(entries)
Join(chunks) ==
    IF chunks = << >> THEN << >> ELSE Head(chunks) \o Join(Tail(chunks))

Zeros(n) == [k \in 1..n |-> 0]

(***************************************************************************)
(* Images and the codecs of the imaging library.  An image is its side and *)
(* a digest px of its artwork; a PNG is the header's width and height, the *)
(* digest, and encLen[side] bytes of compressed data.                      *)
(***************************************************************************)
MasterSizeHalved == 512 \div 2
MasterSize == 512

ArtDigest == 74

NoImage == [size |-> 0, px |-> 0]

\* draw_ball_python_j(size), as the pipeline sees it
Compose(size) == [size |-> size, px |-> ArtDigest]

\* img.resize((size, size), Image.LANCZOS)
Resize(image, size) == [size |-> size, px |-> image.px]

\* image.save(..., "PNG")
PngEncode(image, len) ==
    Pack32(image.size) \o Pack32(image.size) \o << image.px >> \o Zeros(len)

\* Image.open of a PNG
PngDecode(b) ==
    IF Len(b) < 9 THEN NoImage ELSE [size |-> Unpack32(b, 0), px |-> b[9]]

\* sizes of create_ico
ico_sizes == << 16, 32, 48, 64, 128, 256 >>

\* img.save(ico_path, format="ICO", sizes=sizes): the ICONDIR header and one
\* directory entry (width, height, digest) per size the image can provide;
\* a side of 256 is stored as 0.
RECURSIVE IcoDirectory(_, _)
IcoDirectory(image, sizes) ==
    IF sizes = << >> THEN << >>
    ELSE (IF Head(sizes) > image.size THEN << >>
          ELSE << Head(sizes) % 256, Head(sizes) % 256, image.px >>)
         \o IcoDirectory(image, Tail(sizes))

IcoEncode(image, sizes) ==
    LET dir == IcoDirectory(image, sizes)
    IN  << 0, 0, 1, 0, Len(dir) \div 3, 0 >> \o dir

(***************************************************************************)
(* create_icns.                                                            *)
(***************************************************************************)
icon_types_swapped ==
    << [code |-> << 105, 99, 112, 52 >>, size |-> 16],
       [code |-> << 105, 99, 112, 54 >>, size |-> 64],
       [code |-> << 105, 99, 112, 53 >>, size |-> 32],
       [code |-> << 105, 99, 48, 55 >>, size |-> 128],
       [code |-> << 105, 99, 48, 56 >>, size |-> 256],
       [code |-> << 105, 99, 48, 57 >>, size |-> 512] >>

\* icon_types: (b"icp4", 16) ... (b"ic09", 512), the type codes as ASCII
icon_types ==
    << [code |-> << 105, 99, 112, 52 >>, size |-> 16],
       [code |-> << 105, 99, 112, 53 >>, size |-> 32],
       [code |-> << 105, 99, 112, 54 >>, size |-> 64],
       [code |-> << 105, 99, 48, 55 >>, size |-> 128],
       [code |-> << 105, 99, 48, 56 >>, size |-> 256],
       [code |-> << 105, 99, 48, 57 >>, size |-> 512] >>

\* b"icns"
Magic == << 105, 99, 110, 115 >>

EncSizes == {16, 32, 64, 128, 256, 512}

\* png_data of one loop iteration
PngData(image, size) == PngEncode(Resize(image, size), encLen[size])

EntryLenNoHeader(png_data) == Len(png_data)
\* entry_len = 8 + len(png_data)
EntryLen(png_data) == 8 + Len(png_data)

\* type_code + struct.pack(">I", entry_len) + png_data
Entry(type_code, png_data) == type_code \o Pack32(EntryLen(png_data)) \o png_data

TotalLenNoHeader(body) == Len(body)
\* total_len = 8 + len(body)
TotalLen(body) == 8 + Len(body)

\* b"icns" + struct.pack(">I", total_len) + body
IcnsData(body) == Magic \o Pack32(TotalLen(body)) \o body

LoopDoneEarly(k) == k >= Len(icon_types)
\* the for loop over icon_types has run out
LoopDone(k) == k > Len(icon_types)

(***************************************************************************)
(* The disk.                                                               *)
(***************************************************************************)
Files == {"png", "ico", "icns"}
Absent == [present |-> FALSE, bytes |-> << >>]
File(b) == [present |-> TRUE, bytes |-> b]
\* what an earlier generation of the icon may have left as icon.icns
Stale == File(<< 0 >>)

WriteBytesAppend(old, data) == File(old.bytes \o data)
\* Path.write_bytes / Image.save: the target is truncated and written
WriteBytes(old, data) == File(data)

\* a write that raises: the target is untouched (the open failed) or left
\* truncated (the open succeeded and the write failed)
FailedWrite(old) == {old, File(<< >>)}

\* Image.save that raises: the library removes a target it created itself,
\* and leaves a target that was there before untouched or truncated
FailedSave(old) == IF old.present THEN {old, File(<< >>)} ELSE {old}

PackagerInputIco(format) == IF format = "icns" THEN "ico" ELSE "png"
\* the path main passes create_ico and create_icns: png_path, both times
PackagerInput(format) == "png"

(***************************************************************************)
(* Arithmetic of draw_ball_python_j.  A float is held as an integer count  *)
(* of 1/SC; int() truncates toward zero.  A coordinate whose exact value   *)
(* lies within a few 1/SC of a whole number may truncate to the pixel next *)
(* to the one the floats give.                                             *)
(***************************************************************************)
SC == 10000
Pi == 31416
HalfPi == 15708

\* a * b, rounded to the nearest 1/SC
Mul(a, b) == (a * b + SC \div 2) \div SC

\* int(v)
int(v) == IF v >= 0 THEN v \div SC ELSE -((-v) \div SC)

Max(a, b) == IF a >= b THEN a ELSE b
Abs(a) == IF a >= 0 THEN a ELSE -a

\* the odd Taylor polynomial of sin up to x^9, for -pi/2 <= x <= pi/2
SinSeries(x) ==
    LET x2 == Mul(x, x)
        t3 == Mul(x, x2) \div 6
        t5 == Mul(t3, x2) \div 20
        t7 == Mul(t5, x2) \div 42
        t9 == Mul(t7, x2) \div 72
    IN  x - t3 + t5 - t7 + t9

\* math.sin
Sin(x) ==
    LET r == ((x + Pi) % (2 * Pi)) - Pi
    IN  IF r > HalfPi THEN SinSeries(Pi - r)
        ELSE IF r < -HalfPi THEN SinSeries(-Pi - r)
        ELSE SinSeries(r)

\* math.cos
Cos(x) == Sin(x + HalfPi)

\* math.radians, of a whole number of degrees
Radians(deg) == (deg * Pi) \div 180

\* v * s, with s = size / 64 the scale from the 64x64 design space
Scaled(v, size) == (v * size) \div 64

(***************************************************************************)
(* Colours (RGBA; a fill given as RGB is opaque) and layers.               *)
(***************************************************************************)
Transparent == << 0, 0, 0, 0 >>
background_color == << 42, 36, 32, 255 >>
body_color == << 196, 149, 85, 255 >>
patch_color == << 92, 61, 46, 200 >>
highlight_color == << 232, 213, 176, 100 >>
head_color == << 107, 66, 38, 255 >>
head_pattern == << 160, 112, 76, 140 >>
eye_color == << 26, 26, 26, 255 >>
eye_inner_color == << 45, 24, 16, 255 >>
eye_shine_color == << 255, 255, 255, 210 >>
nostril_color == << 45, 24, 16, 160 >>
tongue_color == << 204, 51, 51, 255 >>
tail_color == << 196, 149, 85, 255 >>

\* the layers, back to front
Layers == << "background", "body", "patches", "highlights", "head",
             "eye_nostril", "tongue", "tail" >>
LayerRank(name) == CHOOSE k \in 1..Len(Layers) : Layers[k] = name

(***************************************************************************)
(* Drawing calls, as the imaging library receives them: coordinates        *)
(* already truncated to whole pixels.                                      *)
(***************************************************************************)
RoundedRectangle(x0, y0, x1, y1, r, fill, layer) ==
    [kind |-> "rounded_rectangle", box |-> << x0, y0, x1, y1 >>, r |-> r,
     pts |-> << >>, w |-> 0, fill |-> fill, layer |-> layer]

\* draw.ellipse([x0, y0, x1, y1], fill)
Ellipse(x0, y0, x1, y1, fill, layer) ==
    [kind |-> "ellipse", box |-> << int(x0), int(y0), int(x1), int(y1) >>,
     r |-> 0, pts |-> << >>, w |-> 0, fill |-> fill, layer |-> layer]

\* draw.line([(x0, y0), (x1, y1)], fill, width)
Line(x0, y0, x1, y1, w, fill, layer) ==
    [kind |-> "line", box |-> << int(x0), int(y0), int(x1), int(y1) >>,
     r |-> 0, pts |-> << >>, w |-> w, fill |-> fill, layer |-> layer]

n_pts == 36

Min(a, b) == IF a <= b THEN a ELSE b

RECURSIVE Bounds(_)
\* the bounding box of a non-empty list of points
Bounds(pts) ==
    IF Len(pts) = 1 THEN << pts[1][1], pts[1][2], pts[1][1], pts[1][2] >>
    ELSE LET b == Bounds(Tail(pts))
             q == Head(pts)
         IN  << Min(q[1], b[1]), Min(q[2], b[2]), Max(q[1], b[3]), Max(q[2], b[4]) >>

\* draw_rotated_ellipse: the polygon of n_pts vertices
RotatedEllipse(cx, cy, rx, ry, angle_deg, fill, layer) ==
    LET angle_rad == Radians(angle_deg)
        cos_a == Cos(angle_rad)
        sin_a == Sin(angle_rad)
        theta(k) == (2 * Pi * k) \div n_pts
        x(k) == Mul(rx, Cos(theta(k)))
        y(k) == Mul(ry, Sin(theta(k)))
        pts == [k \in 1..n_pts |->
                  << int(Mul(x(k - 1), cos_a) - Mul(y(k - 1), sin_a) + cx),
                     int(Mul(x(k - 1), sin_a) + Mul(y(k - 1), cos_a) + cy) >>]
    IN  [kind |-> "polygon", box |-> Bounds(pts), r |-> 0, pts |-> pts,
         w |-> 0, fill |-> fill, layer |-> layer]

(***************************************************************************)
(* The drawing calls of draw_ball_python_j(size), layer by layer.  Design  *)
(* coordinates are written in tenths (35.5 is 355).                        *)
(***************************************************************************)
D(tenths) == tenths * (SC \div 10)

\* pad = int(4 * s); radius = int(12 * s)
Pad(size) == int(Scaled(D(40), size))
Radius(size) == int(Scaled(D(120), size))

BackgroundCalls(size) ==
    << RoundedRectangle(Pad(size), Pad(size), size - Pad(size), size - Pad(size),
                        Radius(size), background_color, "background") >>

\* points[t_i], in the design space
BodyPoint(t_i) ==
    IF t_i * 100 < 5445
    THEN LET tt == (t_i * SC * 100) \div 5445
         IN  << D(350) + tt, D(100) + 30 * tt >>
    ELSE LET tt == ((t_i * 100 - 5445) * SC) \div 4455
             angle == Mul(tt, (Pi * 85) \div 100)
             x == D(280) + 12 * Sin(angle)
             y == D(420) + (12 * (SC - Cos(angle)) * 7) \div 10
         IN  << D(360) - (D(360) - x), D(400) + ((y - D(420) + D(50)) * 9) \div 10 >>

\* body_width = int(5 * s)
BodyWidth(size) == int(Scaled(D(50), size))

BodyCalls(size) ==
    [k \in 1..100 |->
        LET px == Scaled(BodyPoint(k - 1)[1], size)
            py == Scaled(BodyPoint(k - 1)[2], size)
            bw == BodyWidth(size) * SC
        IN  Ellipse(px - bw, py - bw, px + bw, py + bw, body_color, "body")]

patches ==
    << << 355, 150, 50, 35, -5 >>,
       << 360, 240, 45, 30, 3 >>,
       << 360, 330, 50, 35, -2 >>,
       << 330, 420, 45, 30, 15 >>,
       << 250, 490, 40, 30, 35 >>,
       << 170, 500, 35, 25, 60 >> >>

highlights ==
    << << 350, 190, 25, 18, -5 >>,
       << 355, 290, 25, 15, 0 >>,
       << 340, 380, 20, 15, 5 >>,
       << 280, 470, 20, 12, 30 >> >>

ScaledEllipse(e, size, fill, layer) ==
    RotatedEllipse(Scaled(D(e[1]), size), Scaled(D(e[2]), size),
                   Scaled(D(e[3]), size), Scaled(D(e[4]), size), e[5], fill, layer)

PatchCalls(size) ==
    [k \in 1..Len(patches) |-> ScaledEllipse(patches[k], size, patch_color, "patches")]

HighlightCalls(size) ==
    [k \in 1..Len(highlights) |->
        ScaledEllipse(highlights[k], size, highlight_color, "highlights")]

HeadCalls(size) ==
    << ScaledEllipse(<< 350, 80, 65, 50, -5 >>, size, head_color, "head"),
       ScaledEllipse(<< 350, 80, 45, 25, -5 >>, size, head_pattern, "head") >>

\* a disk of radius r (design tenths) about (x, y) (in 1/SC pixels)
Disk(x, y, r, size, fill, layer) ==
    LET rr == Scaled(D(r), size)
    IN  Ellipse(x - rr, y - rr, x + rr, y + rr, fill, layer)

EyeNostrilCalls(size) ==
    LET eye_x == Scaled(D(330), size)
        eye_y == Scaled(D(60), size)
        shine_x == eye_x - Scaled(D(4), size)
        shine_y == eye_y - Scaled(D(5), size)
    IN  << Disk(eye_x, eye_y, 15, size, eye_color, "eye_nostril"),
           Disk(eye_x, eye_y, 10, size, eye_inner_color, "eye_nostril"),
           Disk(shine_x, shine_y, 4, size, eye_shine_color, "eye_nostril"),
           Disk(Scaled(D(305), size), Scaled(D(75), size), 5, size,
                nostril_color, "eye_nostril") >>

\* tongue_width = max(1, int(0.6 * s))
TongueWidth(size) == Max(1, int(Scaled(D(6), size)))

TongueLine(a, b, size) ==
    Line(Scaled(D(a[1]), size), Scaled(D(a[2]), size),
         Scaled(D(b[1]), size), Scaled(D(b[2]), size),
         TongueWidth(size), tongue_color, "tongue")

TongueCalls(size) ==
    << TongueLine(<< 290, 90 >>, << 265, 105 >>, size),
       TongueLine(<< 265, 105 >>, << 255, 98 >>, size),
       TongueLine(<< 265, 105 >>, << 255, 112 >>, size) >>

\* tail_width = max(1, int(2.5 * s))
TailWidth(size) == Max(1, int(Scaled(D(25), size)))

\* tail_pts[t_i]
TailPoint(t_i, size) ==
    LET t == (t_i * SC) \div 19
    IN  << Scaled(D(180) + 4 * t, size),
           Scaled(D(440) - 2 * Sin(Mul(t, Pi)), size) >>

\* w = max(1, int(tail_width * (1 - i / len(tail_pts))))
TailSegmentWidth(k, size) == Max(1, (TailWidth(size) * (20 - k)) \div 20)

TailCalls(size) ==
    [k \in 1..19 |->
        Line(TailPoint(k - 1, size)[1], TailPoint(k - 1, size)[2],
             TailPoint(k, size)[1], TailPoint(k, size)[2],
             TailSegmentWidth(k - 1, size), tail_color, "tail")]

DrawListPatchesFirst(size) ==
    BackgroundCalls(size) \o PatchCalls(size) \o BodyCalls(size) \o HighlightCalls(size)
    \o HeadCalls(size) \o EyeNostrilCalls(size) \o TongueCalls(size) \o TailCalls(size)

\* the drawing calls of draw_ball_python_j(size), in the order it makes them
DrawList(size) ==
    BackgroundCalls(size) \o BodyCalls(size) \o PatchCalls(size) \o HighlightCalls(size)
    \o HeadCalls(size) \o EyeNostrilCalls(size) \o TongueCalls(size) \o TailCalls(size)

\* the sizes draw_ball_python_j is called with
Sizes == {16, 32, 64}

Calls == [size \in Sizes |-> DrawList(size)]

(***************************************************************************)
(* Which pixels a drawing call paints.  The pixel (x, y) is the grid point *)
(* (x, y); boxes and edges include their boundary.                         *)
(***************************************************************************)
InBox(box, x, y) ==
    /\ Min(box[1], box[3]) <= x
    /\ x <= Max(box[1], box[3])
    /\ Min(box[2], box[4]) <= y
    /\ y <= Max(box[2], box[4])

\* inside the ellipse inscribed in the box
InEllipse(box, x, y) ==
    LET a == box[3] - box[1]
        b == box[4] - box[2]
        u == 2 * x - box[1] - box[3]
        v == 2 * y - box[2] - box[4]
    IN  /\ InBox(box, x, y)
        /\ u * u * b * b + v * v * a * a <= a * a * b * b

\* inside the rectangle, and inside the corner's quarter disk of radius r
\* where the pixel lies in a corner square
InRoundedRectangle(box, r, x, y) ==
    LET cx == IF x < box[1] + r THEN box[1]
              ELSE IF x > box[3] - r THEN box[3] - 2 * r ELSE -1
        cy == IF y < box[2] + r THEN box[2]
              ELSE IF y > box[4] - r THEN box[4] - 2 * r ELSE -1
    IN  /\ InBox(box, x, y)
        /\ (cx >= 0 /\ cy >= 0) =>
              InEllipse(<< cx, cy, cx + 2 * r, cy + 2 * r >>, x, y)

\* the edge from a to b crosses the ray from (x, y) to the right
Crosses(a, b, x, y) ==
    /\ (a[2] > y) # (b[2] > y)
    /\ IF b[2] > a[2]
       THEN (x - a[1]) * (b[2] - a[2]) < (b[1] - a[1]) * (y - a[2])
       ELSE (x - a[1]) * (b[2] - a[2]) > (b[1] - a[1]) * (y - a[2])

OnEdge(a, b, x, y) ==
    /\ InBox(<< a[1], a[2], b[1], b[2] >>, x, y)
    /\ (x - a[1]) * (b[2] - a[2]) = (b[1] - a[1]) * (y - a[2])

\* on the outline of the polygon or inside it (even-odd)
InPolygon(pts, x, y) ==
    LET n == Len(pts)
        nxt(k) == pts[(k % n) + 1]
    IN  \/ \E k \in 1..n : OnEdge(pts[k], nxt(k), x, y)
        \/ Cardinality({k \in 1..n : Crosses(pts[k], nxt(k), x, y)}) % 2 = 1

\* on the line from (box[1], box[2]) to (box[3], box[4]), w pixels wide
OnLine(box, w, x, y) ==
    LET dx == box[3] - box[1]
        dy == box[4] - box[2]
        cross == dy * (x - box[1]) - dx * (y - box[2])
        h == w \div 2
    IN  IF Abs(dx) >= Abs(dy)
        THEN /\ Min(box[1], box[3]) <= x
             /\ x <= Max(box[1], box[3])
             /\ Min(box[2], box[4]) - h <= y
             /\ y <= Max(box[2], box[4]) + h
             /\ 2 * Abs(cross) <= w * Abs(dx)
        ELSE /\ Min(box[2], box[4]) <= y
             /\ y <= Max(box[2], box[4])
             /\ Min(box[1], box[3]) - h <= x
             /\ x <= Max(box[1], box[3]) + h
             /\ 2 * Abs(cross) <= w * Abs(dy)

Covers(c, x, y) ==
    CASE c.kind = "rounded_rectangle" -> InRoundedRectangle(c.box, c.r, x, y)
      [] c.kind = "ellipse" -> InEllipse(c.box, x, y)
      [] c.kind = "polygon" -> InBox(c.box, x, y) /\ InPolygon(c.pts, x, y)
      [] c.kind = "line" -> OnLine(c.box, c.w, x, y)

(***************************************************************************)
(* The composer: draw_ball_python_j.                                       *)
(***************************************************************************)
Pixels(size) == (0..(size - 1)) \X (0..(size - 1))

PipeIdle ==
    /\ pc = "idle"
    /\ run = 0
    /\ encLen = [z \in EncSizes |-> 0]
    /\ master = NoImage
    /\ disk = [f \in Files |-> Absent]
    /\ written = {}
    /\ composerRuns = 0
    /\ packagerRuns = [f \in {"ico", "icns"} |-> 0]
    /\ icoImg = NoImage
    /\ img = NoImage
    /\ i = 1
    /\ entries = << >>
    /\ icns_data = << >>
    /\ failedAt = "none"
    /\ prevIcns = Absent

\* img = Image.new("RGBA", (size, size), (0, 0, 0, 0))
DrawInit ==
    /\ dsize \in Sizes
    /\ dstep = 0
    /\ dimg = [p \in Pixels(dsize) |-> Transparent]
    /\ PipeIdle

NextCall == Calls[dsize][dstep + 1]

\* the call paints its pixels with its fill: the canvas is RGBA and the
\* fill replaces what was there, alpha included
Paint(c) ==
    /\ dimg' = [p \in DOMAIN dimg |->
                   IF Covers(c, p[1], p[2]) THEN c.fill ELSE dimg[p]]
    /\ dstep' = dstep + 1
    /\ UNCHANGED <<dsize, pipeVars>>

\* the next drawing call is one of this kind
Pending(kind) ==
    /\ dsize \in Sizes
    /\ dstep < Len(Calls[dsize])
    /\ NextCall.kind = kind

\* draw.rounded_rectangle
DrawRoundedRectangle ==
    /\ Pending("rounded_rectangle")
    /\ Paint(NextCall)

\* draw.ellipse
DrawEllipse ==
    /\ Pending("ellipse")
    /\ Paint(NextCall)

\* draw.polygon, of draw_rotated_ellipse
DrawPolygon ==
    /\ Pending("polygon")
    /\ Paint(NextCall)

\* draw.line
DrawLine ==
    /\ Pending("line")
    /\ Paint(NextCall)

\* return img
Returned == dsize \in Sizes /\ dstep = Len(Calls[dsize])

NextDraw ==
    \/ DrawRoundedRectangle
    \/ DrawEllipse
    \/ DrawPolygon
    \/ DrawLine

SpecDraw == DrawInit /\ [][NextDraw]_vars

(***************************************************************************)
(* The pipeline: main.                                                     *)
(***************************************************************************)
PipeInit ==
    /\ pc = "start"
    /\ run = 1
    /\ encLen \in [EncSizes -> 0..MaxPngLen]
    /\ master = NoImage
    /\ disk \in {[f \in Files |-> IF f = "icns" THEN old ELSE Absent] :
                    old \in {Absent, Stale}}
    /\ written = {}
    /\ composerRuns = 0
    /\ packagerRuns = [f \in {"ico", "icns"} |-> 0]
    /\ icoImg = NoImage
    /\ img = NoImage
    /\ i = 1
    /\ entries = << >>
    /\ icns_data = << >>
    /\ failedAt = "none"
    /\ prevIcns = Absent

\* a step of main raises: nothing is caught, the run ends
Raise(where) ==
    /\ pc' = "failed"
    /\ failedAt' = where

\* icon = draw_ball_python_j(512)
ComposeMaster ==
    /\ pc = "start"
    /\ master' = Compose(MasterSize)
    /\ composerRuns' = composerRuns + 1
    /\ pc' = "composed"
    /\ UNCHANGED <<run, encLen, disk, written, packagerRuns, icoImg, img, i,
                   entries, icns_data, failedAt, prevIcns, drawVars>>

ComposeFail ==
    /\ pc = "start"
    /\ composerRuns' = composerRuns + 1
    /\ Raise("compose")
    /\ UNCHANGED <<run, encLen, master, disk, written, packagerRuns, icoImg,
                   img, i, entries, icns_data, prevIcns, drawVars>>

\* icon.save(str(png_path), "PNG")
SavePng ==
    /\ pc = "composed"
    /\ disk' = [disk EXCEPT !["png"] =
                   WriteBytes(@, PngEncode(master, encLen[master.size]))]
    /\ written' = written \cup {"png"}
    /\ pc' = "png_saved"
    /\ UNCHANGED <<run, encLen, master, composerRuns, packagerRuns, icoImg, img,
                   i, entries, icns_data, failedAt, prevIcns, drawVars>>

SavePngFail ==
    /\ pc = "composed"
    /\ \E f \in FailedSave(disk["png"]) : disk' = [disk EXCEPT !["png"] = f]
    /\ written' = IF disk' = disk THEN written ELSE written \cup {"png"}
    /\ Raise("save_png")
    /\ UNCHANGED <<run, encLen, master, composerRuns, packagerRuns, icoImg, img,
                   i, entries, icns_data, prevIcns, drawVars>>

\* create_ico(png_path, ico_path)
CreateIco ==
    /\ pc = "png_saved"
    /\ packagerRuns' = [packagerRuns EXCEPT !["ico"] = @ + 1]
    /\ icoImg' = PngDecode(disk[PackagerInput("ico")].bytes)
    /\ disk' = [disk EXCEPT !["ico"] = WriteBytes(@, IcoEncode(icoImg', ico_sizes))]
    /\ written' = written \cup {"ico"}
    /\ pc' = "ico_done"
    /\ UNCHANGED <<run, encLen, master, composerRuns, img, i, entries,
                   icns_data, failedAt, prevIcns, drawVars>>

CreateIcoFail ==
    /\ pc = "png_saved"
    /\ packagerRuns' = [packagerRuns EXCEPT !["ico"] = @ + 1]
    /\ \E f \in FailedSave(disk["ico"]) : disk' = [disk EXCEPT !["ico"] = f]
    /\ written' = IF disk' = disk THEN written ELSE written \cup {"ico"}
    /\ Raise("create_ico")
    /\ UNCHANGED <<run, encLen, master, composerRuns, icoImg, img, i, entries,
                   icns_data, prevIcns, drawVars>>

\* create_icns: img = Image.open(png_path); entries = []
IcnsOpen ==
    /\ pc = "ico_done"
    /\ packagerRuns' = [packagerRuns EXCEPT !["icns"] = @ + 1]
    /\ img' = PngDecode(disk[PackagerInput("icns")].bytes)
    /\ entries' = << >>
    /\ i' = 1
    /\ pc' = "icns_loop"
    /\ UNCHANGED <<run, encLen, master, disk, written, composerRuns, icoImg,
                   icns_data, failedAt, prevIcns, drawVars>>

IcnsOpenFail ==
    /\ pc = "ico_done"
    /\ packagerRuns' = [packagerRuns EXCEPT !["icns"] = @ + 1]
    /\ Raise("icns_open")
    /\ UNCHANGED <<run, encLen, master, disk, written, composerRuns, icoImg,
                   img, i, entries, icns_data, prevIcns, drawVars>>

\* one iteration of the loop over icon_types: resize, encode, append
IcnsEntry ==
    /\ pc = "icns_loop"
    /\ ~LoopDone(i)
    /\ entries' = Append(entries,
                         Entry(icon_types[i].code, PngData(img, icon_types[i].size)))
    /\ i' = i + 1
    /\ UNCHANGED <<pc, run, encLen, master, disk, written, composerRuns,
                   packagerRuns, icoImg, img, icns_data, failedAt, prevIcns,
                   drawVars>>

\* resize or save raises in an iteration
IcnsEntryFail ==
    /\ pc = "icns_loop"
    /\ ~LoopDone(i)
    /\ Raise("icns_entry")
    /\ UNCHANGED <<run, encLen, master, disk, written, composerRuns,
                   packagerRuns, icoImg, img, i, entries, icns_data, prevIcns,
                   drawVars>>

\* body = b"".join(entries); total_len; icns_data
IcnsPack ==
    /\ pc = "icns_loop"
    /\ LoopDone(i)
    /\ icns_data' = IcnsData(Join(entries))
    /\ pc' = "icns_packed"
    /\ UNCHANGED <<run, encLen, master, disk, written, composerRuns,
                   packagerRuns, icoImg, img, i, entries, failedAt, prevIcns,
                   drawVars>>

\* icns_path.write_bytes(icns_data), and main returns
IcnsWrite ==
    /\ pc = "icns_packed"
    /\ disk' = [disk EXCEPT !["icns"] = WriteBytes(@, icns_data)]
    /\ written' = written \cup {"icns"}
    /\ pc' = "done"
    /\ UNCHANGED <<run, encLen, master, composerRuns, packagerRuns, icoImg, img,
                   i, entries, icns_data, failedAt, prevIcns, drawVars>>

IcnsWriteFail ==
    /\ pc = "icns_packed"
    /\ \E f \in FailedWrite(disk["icns"]) : disk' = [disk EXCEPT !["icns"] = f]
    /\ written' = IF disk' = disk THEN written ELSE written \cup {"icns"}
    /\ Raise("icns_write")
    /\ UNCHANGED <<run, encLen, master, composerRuns, packagerRuns, icoImg, img,
                   i, entries, icns_data, prevIcns, drawVars>>

\* the script is started again, against the disk the last run left
Rerun ==
    /\ pc \in {"done", "failed"}
    /\ run < MaxRuns
    /\ run' = run + 1
    /\ prevIcns' = IF pc = "done" THEN disk["icns"] ELSE prevIcns
    /\ pc' = "start"
    /\ master' = NoImage
    /\ written' = {}
    /\ composerRuns' = 0
    /\ packagerRuns' = [f \in {"ico", "icns"} |-> 0]
    /\ icoImg' = NoImage
    /\ img' = NoImage
    /\ i' = 1
    /\ entries' = << >>
    /\ icns_data' = << >>
    /\ failedAt' = "none"
    /\ UNCHANGED <<encLen, disk, drawVars>>

DrawIdle ==
    /\ dsize = 0
    /\ dstep = 0
    /\ dimg = << >>

Init == PipeInit /\ DrawIdle

Next ==
    \/ ComposeMaster
    \/ ComposeFail
    \/ SavePng
    \/ SavePngFail
    \/ CreateIco
    \/ CreateIcoFail
    \/ IcnsOpen
    \/ IcnsOpenFail
    \/ IcnsEntry
    \/ IcnsEntryFail
    \/ IcnsPack
    \/ IcnsWrite
    \/ IcnsWriteFail
    \/ Rerun

Spec == Init /\ [][Next]_vars

(***************************************************************************)
(* Reading an ICNS container back: the walk a decoder makes from offset 8, *)
(* stepping by each entry's declared length.                               *)
(***************************************************************************)
IcnsOut == disk["icns"].bytes

WellFormedAt(b, off) ==
    /\ off + 8 <= Len(b)
    /\ Unpack32(b, off + 4) >= 8
    /\ off + Unpack32(b, off + 4) <= Len(b)

RECURSIVE DecodeEntries(_, _)
\* The entries met from 0-based offset off on; the walk stops at the end of
\* the file or at the first header that does not fit.
DecodeEntries(b, off) ==
    IF ~WellFormedAt(b, off) THEN << >>
    ELSE LET len == Unpack32(b, off + 4)
         IN  << [code |-> SubSeq(b, off + 1, off + 4),
                 len |-> len,
                 payload |-> SubSeq(b, off + 9, off + len)] >>
             \o DecodeEntries(b, off + len)

RECURSIVE WalkEnd(_, _)
\* The offset at which that walk stops.
WalkEnd(b, off) ==
    IF ~WellFormedAt(b, off) THEN off ELSE WalkEnd(b, off + Unpack32(b, off + 4))

RECURSIVE SumLen(_)
SumLen(es) == IF es = << >> THEN 0 ELSE Head(es).len + SumLen(Tail(es))

Completed == pc = "done"

(***************************************************************************)
(* C1.  As stated: the output of create_icns starts with the bytes 'icns'  *)
(* and the big-endian uint32 at offset 4 equals the file length minus 8.   *)
(***************************************************************************)
C1_HeaderIsLengthMinus8 ==
    Completed =>
        /\ SubSeq(IcnsOut, 1, 4) = << 105, 99, 110, 115 >>
        /\ Unpack32(IcnsOut, 4) = Len(IcnsOut) - 8

(***************************************************************************)
(* C1, amended.  The output of create_icns starts with the bytes 'icns'    *)
(* and the big-endian uint32 at offset 4 equals the file length itself     *)
(* (the 8 header bytes are counted).                                       *)
(***************************************************************************)
C1_HeaderIsFileLength ==
    Completed =>
        /\ SubSeq(IcnsOut, 1, 4) = << 105, 99, 110, 115 >>
        /\ Unpack32(IcnsOut, 4) = Len(IcnsOut)

C1_Witness ==
    /\ Completed
    /\ encLen[16] = 0
    /\ encLen[32] = 1
    /\ Len(IcnsOut) > 8

(***************************************************************************)
(* C2.  Round trip of the container: the declared total length is the file *)
(* length and is 8 plus the sum of the declared entry lengths; each        *)
(* declared entry length is 8 plus the length of its PNG payload; the walk *)
(* from offset 8 recovers every payload as it was encoded and stops        *)
(* exactly at the end of the file.                                         *)
(***************************************************************************)
C2_RoundTrip ==
    Completed =>
        LET es == DecodeEntries(IcnsOut, 8)
        IN  /\ Unpack32(IcnsOut, 4) = Len(IcnsOut)
            /\ Unpack32(IcnsOut, 4) = 8 + SumLen(es)
            /\ WalkEnd(IcnsOut, 8) = Len(IcnsOut)
            /\ Len(es) = Len(icon_types)
            /\ \A k \in 1..Len(es) :
                  /\ es[k].payload = PngData(master, icon_types[k].size)
                  /\ es[k].len = 8 + Len(PngData(master, icon_types[k].size))

C2_Witness ==
    /\ Completed
    /\ encLen[64] = 1
    /\ encLen[128] = 0
    /\ WalkEnd(IcnsOut, 8) > 8

(***************************************************************************)
(* C3.  The icon.icns of a run of main holds exactly 6 entries, with type  *)
(* codes icp4, icp5, icp6, ic07, ic08, ic09 and pixel sizes 16, 32, 64,    *)
(* 128, 256, 512 in that order, cut from a master of size 512.             *)
(***************************************************************************)
C3_SixEntriesInOrder ==
    Completed =>
        LET es == DecodeEntries(IcnsOut, 8)
        IN  /\ master.size = 512
            /\ [k \in 1..Len(es) |-> es[k].code] =
                   << << 105, 99, 112, 52 >>, << 105, 99, 112, 53 >>,
                      << 105, 99, 112, 54 >>, << 105, 99, 48, 55 >>,
                      << 105, 99, 48, 56 >>, << 105, 99, 48, 57 >> >>
            /\ [k \in 1..Len(es) |-> PngDecode(es[k].payload).size] =
                   << 16, 32, 64, 128, 256, 512 >>

C3_Witness ==
    /\ Completed
    /\ Len(DecodeEntries(IcnsOut, 8)) = 6
    /\ "icns" \in written

(***************************************************************************)
(* C4.  As stated: when a run of main ends, either all three outputs have  *)
(* been written, or none of this run's outputs is on disk.                 *)
(***************************************************************************)
C4_AllOrNothing ==
    pc \in {"done", "failed"} => written = Files \/ written = {}

(***************************************************************************)
(* C6.  Determinism of the packager: a run that completes on the same      *)
(* master with the same encoder leaves icon.icns byte for byte as the      *)
(* completed run before it left it.                                        *)
(***************************************************************************)
C6_Deterministic ==
    (Completed /\ prevIcns.present) => disk["icns"] = prevIcns

C6_Witness ==
    /\ Completed
    /\ run > 1
    /\ prevIcns.present
    /\ Len(prevIcns.bytes) > 8

(***************************************************************************)
(* C7.  As stated: in a run of main the Composer runs once, the Packager   *)
(* twice (ICO and ICNS), both on the master of that Composer run, and the  *)
(* run writes exactly two files.                                           *)
(***************************************************************************)
C7_TwoFilesWritten ==
    Completed =>
        /\ composerRuns = 1
        /\ packagerRuns = [f \in {"ico", "icns"} |-> 1]
        /\ icoImg = master
        /\ img = master
        /\ Cardinality(written) = 2

(***************************************************************************)
(* C7, amended.  No run of main runs the Composer or either packager more  *)
(* than once; a run that completes has run the Composer once and the       *)
(* Packager twice (ICO and ICNS), both on the master of that Composer run, *)
(* and has written exactly three files: icon.png, icon.ico and icon.icns.  *)
(***************************************************************************)
C7_ThreeFilesWritten ==
    /\ composerRuns <= 1
    /\ \A f \in {"ico", "icns"} : packagerRuns[f] <= 1
    /\ Completed =>
        /\ composerRuns = 1
        /\ packagerRuns = [f \in {"ico", "icns"} |-> 1]
        /\ icoImg = master
        /\ img = master
        /\ written = {"png", "ico", "icns"}

C7_Witness ==
    /\ Completed
    /\ packagerRuns["ico"] = 1
    /\ packagerRuns["icns"] = 1
    /\ Cardinality(written) = 3

(***************************************************************************)
(* C9.  icon.icns changes only in the one write of create_icns, made after *)
(* all six entries are encoded and the header is built; a call in which a  *)
(* resize or an encoding raises leaves the file as it was.                 *)
(***************************************************************************)
C9_WriteAfterEncoding ==
    [][/\ disk'["icns"] # disk["icns"] =>
            /\ pc = "icns_packed"
            /\ Len(entries) = 6
            /\ icns_data = IcnsData(Join(entries))
            /\ pc' \in {"done", "failed"}
       /\ failedAt' = "icns_entry" => disk' = disk]_vars

C9_Witness ==
    /\ failedAt = "icns_entry"
    /\ i > 1
    /\ disk["icns"] = Stale

(***************************************************************************)
(* C10.  The master is never upscaled: every size either packager asks for *)
(* is at most the size of the master main composed, and at most the size   *)
(* of the image the packager opened.                                       *)
(***************************************************************************)
C10_NeverUpscaled ==
    /\ master # NoImage =>
          /\ \A k \in 1..Len(ico_sizes) : ico_sizes[k] <= master.size
          /\ \A k \in 1..Len(icon_types) : icon_types[k].size <= master.size
    /\ icoImg # NoImage => \A k \in 1..Len(ico_sizes) : ico_sizes[k] <= icoImg.size
    /\ pc \in {"icns_loop", "icns_packed"} =>
          \A k \in 1..Len(entries) : icon_types[k].size <= img.size

C10_Witness ==
    /\ pc = "icns_packed"
    /\ Len(entries) = 6
    /\ icoImg.size = 512
    /\ img.size = 512

(***************************************************************************)
(* C5.  As stated: draw_ball_python_j(S) works on an S x S image, and      *)
(* every pixel outside the rounded-rectangle background has alpha 0.       *)
(***************************************************************************)
InBackground(size, p) == Covers(BackgroundCalls(size)[1], p[1], p[2])

C5_TransparentOutsideBackground ==
    dsize \in Sizes =>
        /\ DOMAIN dimg = Pixels(dsize)
        /\ \A p \in DOMAIN dimg : ~InBackground(dsize, p) => dimg[p][4] = 0

(***************************************************************************)
(* C8.  The layers are painted back to front: background, body, patches,   *)
(* highlights, head, eye and nostril, tongue, tail.  No call of a layer is *)
(* made before a call of a layer behind it, and in the returned image each *)
(* pixel shows a fill of the frontmost layer that covers it.               *)
(***************************************************************************)
Rank(k) == LayerRank(Calls[dsize][k].layer)

C8_BackToFront ==
    dsize \in Sizes =>
        /\ \A k \in 1..dstep : \A j \in (dstep + 1)..Len(Calls[dsize]) :
              Rank(k) <= Rank(j)
        /\ Returned =>
              \A p \in DOMAIN dimg :
                 LET cov == {k \in 1..dstep : Covers(Calls[dsize][k], p[1], p[2])}
                 IN  IF cov = {} THEN dimg[p] = Transparent
                     ELSE \E k \in cov :
                            /\ \A j \in cov : Rank(j) <= Rank(k)
                            /\ dimg[p] = Calls[dsize][k].fill

C8_Witness ==
    /\ Returned
    /\ \E p \in DOMAIN dimg :
          /\ dimg[p] = patch_color
          /\ \E k \in 1..dstep :
                /\ Calls[dsize][k].layer = "body"
                /\ Covers(Calls[dsize][k], p[1], p[2])
          /\ InBackground(dsize, p)

==========================================================================
